---- MODULE Spec2Model ----
(***************************************************************************)
(* Model of the markdown_to_latex pipeline stages:                         *)
(*   - Tokenizer (src/src/tokenizer.rs): a cursor over the input text and  *)
(*     the dispatch loop of Tokenizer::tokenize, one action per match arm. *)
(*   - LatexConverter (src/src/latex_converter.rs): the fold of            *)
(*     LatexConverter::convert over a token vector, one action per arm.    *)
(* Texts are sequences of one-character strings.  The output text `latex`  *)
(* is a sequence of strings: every literal piece of a format! template is  *)
(* one element, every payload character is one element.                    *)
(***************************************************************************)
EXTENDS Integers, Sequences, FiniteSets, TLC

VARIABLES
    pc,         \* "tokenize" | "tokenized" | "convert" | "converted"
    input,      \* the &str handed to Tokenizer::new
    pos,        \* 1-based index of Tokenizer.current in input; Len(input)+1 when current is None
    tokens,     \* the Vec<Token> built by tokenize / consumed by convert
    i,          \* index in tokens of the next token of convert's for loop
    in_list,    \* LatexConverter.in_list
    list_type,  \* LatexConverter.list_type: <<>> is None, <<b>> is Some(b)
    latex       \* convert's accumulator `latex`

vars == <<pc, input, pos, tokens, i, in_list, list_type, latex>>

----------------------------------------------------------------------------
(* Bounds of the model *)

MaxLen == 4          \* every input text of at most MaxLen characters is explored
MaxPayload == 2      \* longest payload inside the templated (longer) inputs
MaxTokens == 3       \* longest token vector handed to convert

----------------------------------------------------------------------------
(* Characters *)

Chars == {"#", "*", "[", "]", "(", ")", "1", ".", " ", "-", "\n", "a"}

None == "None"

\* char::is_whitespace
Whitespace == {" ", "\n"}

\* char::is_digit(10)
Digits == {"1"}

\* the match pattern '1'..='9'
ListDigits == {"1"}

Strings(S, n) == UNION {[1..k -> S] : k \in 0..n}

----------------------------------------------------------------------------
(* Token *)

Header(text, level) == [type |-> "Header", text |-> text, level |-> level]
Bold(text) == [type |-> "Bold", text |-> text]
Italic(text) == [type |-> "Italic", text |-> text]
Link(text, url) == [type |-> "Link", text |-> text, url |-> url]
ListItem(text, is_numbered) == [type |-> "ListItem", text |-> text, is_numbered |-> is_numbered]
Text(text) == [type |-> "Text", text |-> text]
Formula(text, flag) == [type |-> "Formula", text |-> text, flag |-> flag]
Newline == [type |-> "Newline"]

----------------------------------------------------------------------------
(* Tokenizer: cursor helpers.  s is the input text, p the cursor.          *)

current(s, p) == IF p <= Len(s) THEN s[p] ELSE None

\* self.current = self.input.next(); the exhausted iterator keeps returning None
advance(s, p) == IF p <= Len(s) THEN p + 1 ELSE p

\* Accept is the set of characters for which `condition` is true.  The loop
\* pushes and advances until current is None or fails the condition: it
\* stops at the first such cursor e and has pushed the characters before it.
take_while(s, p, Accept) ==
    LET stops(e) == current(s, e) = None \/ current(s, e) \notin Accept
        e == CHOOSE e \in p..(Len(s) + 1) :
                 stops(e) /\ \A k \in p..(e - 1) : ~stops(k)
    IN [result |-> SubSeq(s, p, e - 1), pos |-> e]

RECURSIVE skip_whitespace(_, _)
skip_whitespace(s, p) ==
    IF current(s, p) # None /\ current(s, p) \in Whitespace
    THEN skip_whitespace(s, advance(s, p))
    ELSE p

\* str::trim
RECURSIVE trim_start(_)
trim_start(t) ==
    IF t # <<>> /\ Head(t) \in Whitespace THEN trim_start(Tail(t)) ELSE t

RECURSIVE trim_end(_)
trim_end(t) ==
    IF t # <<>> /\ t[Len(t)] \in Whitespace
    THEN trim_end(SubSeq(t, 1, Len(t) - 1))
    ELSE t

trim(t) == trim_end(trim_start(t))

\* the body of clean_text is commented out: it returns its argument
clean_text(text) == text

----------------------------------------------------------------------------
(* Tokenizer: the token functions.  Each returns the token and the cursor  *)
(* it leaves behind.                                                       *)

tokenize_header(s, p) ==
    LET h == take_while(s, p, {"#"})
        level == Len(h.result) % 256
        w == skip_whitespace(s, h.pos)
        t == take_while(s, w, Chars \ {"\n"})
    IN [token |-> Header(trim(t.result), level), pos |-> t.pos]

\* variant: the second '*' of a closing "**" is not consumed
tokenize_bold_or_italic_halfclose(s, p) ==
    LET p1 == advance(s, p)
        is_bold == current(s, p1) = "*"
        p2 == IF is_bold THEN advance(s, p1) ELSE p1
        t == take_while(s, p2, Chars \ {"*"})
        p3 == advance(s, t.pos)
    IN [token |-> IF is_bold THEN Bold(clean_text(t.result))
                             ELSE Italic(clean_text(t.result)),
        pos |-> p3]

tokenize_bold_or_italic(s, p) ==
    LET p1 == advance(s, p)
        is_bold == current(s, p1) = "*"
        p2 == IF is_bold THEN advance(s, p1) ELSE p1
        t == take_while(s, p2, Chars \ {"*"})
        p3 == advance(s, t.pos)
        p4 == IF is_bold THEN advance(s, p3) ELSE p3
    IN [token |-> IF is_bold THEN Bold(clean_text(t.result))
                             ELSE Italic(clean_text(t.result)),
        pos |-> p4]

\* variant: only the ']' is skipped between the text and the url
tokenize_link_keeps_paren(s, p) ==
    LET p1 == advance(s, p)
        t == take_while(s, p1, Chars \ {"]"})
        p2 == advance(s, t.pos)
        u == take_while(s, p2, Chars \ {")"})
        p4 == advance(s, u.pos)
    IN [token |-> Link(clean_text(t.result), u.result), pos |-> p4]

tokenize_link(s, p) ==
    LET p1 == advance(s, p)
        t == take_while(s, p1, Chars \ {"]"})
        p2 == advance(s, t.pos)
        p3 == advance(s, p2)
        u == take_while(s, p3, Chars \ {")"})
        p4 == advance(s, u.pos)
    IN [token |-> Link(clean_text(t.result), u.result), pos |-> p4]

\* variant: a digit run followed by '.' is a list marker, whatever follows
is_numbered_list_any_dot(s, p) ==
    current(s, take_while(s, p + 1, Digits).pos) = "."

\* self.input is the text after the current character; Iterator::take_while
\* yields only the characters that satisfy its predicate, and `any` looks
\* for '.' among the yielded ones
is_numbered_list(s, p) ==
    LET run == take_while(s, p + 1, Digits).result
    IN \E k \in 1..Len(run) : run[k] = "."

\* variant: the character after the list marker is skipped as well
tokenize_list_item_skips_two(s, p, is_numbered) ==
    LET p1 == IF is_numbered THEN take_while(s, p, Digits).pos ELSE p
        p2 == advance(s, advance(s, p1))
        p3 == skip_whitespace(s, p2)
        t == take_while(s, p3, Chars \ {"\n"})
    IN [token |-> ListItem(clean_text(t.result), is_numbered), pos |-> t.pos]

tokenize_list_item(s, p, is_numbered) ==
    LET p1 == IF is_numbered THEN take_while(s, p, Digits).pos ELSE p
        p2 == advance(s, p1)
        p3 == skip_whitespace(s, p2)
        t == take_while(s, p3, Chars \ {"\n"})
    IN [token |-> ListItem(clean_text(t.result), is_numbered), pos |-> t.pos]

\* variant: tokenize_text also stops at ']'
TextStop_bracket == {"#", "*", "[", "]", "\n"}

\* variant: tokenize_text runs over line ends
TextStop_same_line == {"#", "*", "["}

\* the characters at which tokenize_text stops
TextStop == {"#", "*", "[", "\n"}

tokenize_text(s, p) ==
    LET t == take_while(s, p, Chars \ TextStop)
    IN [token |-> Text(clean_text(t.result)), pos |-> t.pos]

----------------------------------------------------------------------------
(* Tokenizer::tokenize: one action per arm of the match in the loop        *)

convVars == <<i, in_list, list_type, latex>>

Emit(r) ==
    /\ tokens' = Append(tokens, r.token)
    /\ pos' = r.pos
    /\ UNCHANGED <<pc, input, convVars>>

AtDispatch == pc = "tokenize" /\ current(input, pos) # None

\* the guard of the arm  '1'..='9' if self.is_numbered_list()
NumberedArm(s, p) == current(s, p) \in ListDigits /\ is_numbered_list(s, p)

TokenizeHeader ==
    /\ AtDispatch
    /\ current(input, pos) = "#"
    /\ Emit(tokenize_header(input, pos))

TokenizeBoldOrItalic ==
    /\ AtDispatch
    /\ current(input, pos) = "*"
    /\ Emit(tokenize_bold_or_italic(input, pos))

TokenizeLink ==
    /\ AtDispatch
    /\ current(input, pos) = "["
    /\ Emit(tokenize_link(input, pos))

TokenizeListItem ==
    /\ AtDispatch
    /\ IF NumberedArm(input, pos) THEN TRUE ELSE current(input, pos) = "-"
    /\ Emit(tokenize_list_item(input, pos, NumberedArm(input, pos)))

TokenizeNewline ==
    /\ AtDispatch
    /\ current(input, pos) = "\n"
    /\ Emit([token |-> Newline, pos |-> advance(input, pos)])

TokenizeText ==
    /\ AtDispatch
    /\ current(input, pos) \notin {"#", "*", "[", "-", "\n"}
    /\ ~NumberedArm(input, pos)
    /\ Emit(tokenize_text(input, pos))

\* the loop ends when current is None and tokenize returns the tokens
TokenizeReturn ==
    /\ pc = "tokenize"
    /\ current(input, pos) = None
    /\ pc' = "tokenized"
    /\ UNCHANGED <<input, pos, tokens, convVars>>

----------------------------------------------------------------------------
(* Inputs of the tokenizer: every text of at most MaxLen characters, and   *)
(* longer texts built around one emphasis span, link, numbered marker or   *)
(* long '#' run.                                                           *)

PayloadChars == {"a", " "}
Payloads == Strings(PayloadChars, MaxPayload)
Affixes == {<<>>} \cup {<<c>> : c \in Chars}

ShortInputs == Strings(Chars, MaxLen)

EmphInputs ==
    {pre \o m \o x \o m \o post :
        pre \in Affixes, post \in Affixes, m \in {<<"*">>, <<"*", "*">>}, x \in Payloads}

LinkInputs ==
    {pre \o <<"[">> \o t \o <<"]", "(">> \o u \o <<")">> \o post :
        pre \in Affixes, post \in Affixes, t \in Payloads, u \in Payloads}

NumberedInputs ==
    {pre \o d \o dot \o w \o x :
        pre \in Affixes, d \in {<<"1">>, <<"1", "1">>}, dot \in {<<>>, <<".">>},
        w \in {<<>>, <<" ">>, <<"\n">>}, x \in Payloads}

\* headers whose '#' run is around the sectioning levels and around the
\* range of the u8 level
HashRunLengths == {5, 6, 7, 255, 256, 257}

HashRunInputs ==
    {[k \in 1..n |-> "#"] \o post : n \in HashRunLengths, post \in {<<>>, <<" ", "a">>}}

Inputs ==
    ShortInputs \cup EmphInputs \cup LinkInputs \cup NumberedInputs \cup HashRunInputs

Init ==
    /\ pc = "tokenize"
    /\ input \in Inputs
    /\ pos = 1
    /\ tokens = <<>>
    /\ i = 1
    /\ in_list = FALSE
    /\ list_type = <<>>
    /\ latex = <<>>

Next ==
    \/ TokenizeHeader
    \/ TokenizeBoldOrItalic
    \/ TokenizeLink
    \/ TokenizeListItem
    \/ TokenizeNewline
    \/ TokenizeText
    \/ TokenizeReturn

Spec == Init /\ [][Next]_vars

----------------------------------------------------------------------------
(* LatexConverter: the formatting functions                                *)

\* variant: the paragraph levels are taken for the fallback
convert_header_three_levels(text, level) ==
    CASE level = 1 -> <<"\\section{">> \o text \o <<"}\n">>
      [] level = 2 -> <<"\\subsection{">> \o text \o <<"}\n">>
      [] level = 3 -> <<"\\subsubsection{">> \o text \o <<"}\n">>
      [] OTHER -> <<"\\textbf{">> \o text \o <<"}\n">>

convert_header(text, level) ==
    CASE level = 1 -> <<"\\section{">> \o text \o <<"}\n">>
      [] level = 2 -> <<"\\subsection{">> \o text \o <<"}\n">>
      [] level = 3 -> <<"\\subsubsection{">> \o text \o <<"}\n">>
      [] level = 4 -> <<"\\paragraph{">> \o text \o <<"}\n">>
      [] level = 5 -> <<"\\subparagraph{">> \o text \o <<"}\n">>
      [] OTHER -> <<"\\textbf{">> \o text \o <<"}\n">>

convert_bold(text) == <<"\\textbf{">> \o text \o <<"}">>

convert_italic(text) == <<"\\textit{">> \o text \o <<"}">>

convert_link(text, url) == <<"\\href{">> \o url \o <<"}{">> \o text \o <<"}">>

\* Option<bool>::unwrap_or
unwrap_or(opt, default) == IF opt = <<>> THEN default ELSE opt[1]

\* format!("\\begin{{{}}}\n", env) and format!("\\end{{{}}}\n", env) with
\* env = if is_numbered { "enumerate" } else { "itemize" }
BeginMarker(is_numbered) ==
    IF is_numbered THEN "\\begin{enumerate}\n" ELSE "\\begin{itemize}\n"

EndMarker(is_numbered) ==
    IF is_numbered THEN "\\end{enumerate}\n" ELSE "\\end{itemize}\n"

ItemMarker == "\\item "

\* variant: the list is closed in the output but in_list is not reset
close_list_keeps_open(inl, lt) ==
    IF inl
    THEN [out |-> <<EndMarker(unwrap_or(lt, FALSE))>>, in_list |-> inl]
    ELSE [out |-> <<>>, in_list |-> inl]

\* returns the emitted text and the new in_list; list_type is left alone
close_list_if_needed(inl, lt) ==
    IF inl
    THEN [out |-> <<EndMarker(unwrap_or(lt, FALSE))>>, in_list |-> FALSE]
    ELSE [out |-> <<>>, in_list |-> inl]

\* variant: every item of an open list closes and reopens the environment
convert_list_item_reopens(inl, lt, text, is_numbered) ==
    IF ~inl
    THEN [out |-> <<BeginMarker(is_numbered), ItemMarker>> \o text,
          in_list |-> TRUE, list_type |-> <<is_numbered>>]
    ELSE LET close == close_list_if_needed(inl, lt)
         IN [out |-> close.out \o <<BeginMarker(is_numbered), ItemMarker>> \o text,
             in_list |-> TRUE, list_type |-> <<is_numbered>>]

\* variant: a kind switch opens the new environment without closing the old
convert_list_item_noclose(inl, lt, text, is_numbered) ==
    IF ~inl
    THEN [out |-> <<BeginMarker(is_numbered), ItemMarker>> \o text,
          in_list |-> TRUE, list_type |-> <<is_numbered>>]
    ELSE IF lt = <<is_numbered>>
    THEN [out |-> <<ItemMarker>> \o text, in_list |-> inl, list_type |-> lt]
    ELSE [out |-> <<BeginMarker(is_numbered), ItemMarker>> \o text,
          in_list |-> TRUE, list_type |-> <<is_numbered>>]

\* variant: a kind switch does not record the kind of the new list
convert_list_item_stale_kind(inl, lt, text, is_numbered) ==
    IF ~inl
    THEN [out |-> <<BeginMarker(is_numbered), ItemMarker>> \o text,
          in_list |-> TRUE, list_type |-> <<is_numbered>>]
    ELSE IF lt = <<is_numbered>>
    THEN [out |-> <<ItemMarker>> \o text, in_list |-> inl, list_type |-> lt]
    ELSE LET close == close_list_if_needed(inl, lt)
         IN [out |-> close.out \o <<BeginMarker(is_numbered), ItemMarker>> \o text,
             in_list |-> TRUE, list_type |-> lt]

\* returns the emitted text and the new in_list and list_type
convert_list_item(inl, lt, text, is_numbered) ==
    IF ~inl
    THEN [out |-> <<BeginMarker(is_numbered), ItemMarker>> \o text,
          in_list |-> TRUE, list_type |-> <<is_numbered>>]
    ELSE IF lt = <<is_numbered>>
    THEN [out |-> <<ItemMarker>> \o text, in_list |-> inl, list_type |-> lt]
    ELSE LET close == close_list_if_needed(inl, lt)
         IN [out |-> close.out \o <<BeginMarker(is_numbered), ItemMarker>> \o text,
             in_list |-> TRUE, list_type |-> <<is_numbered>>]

----------------------------------------------------------------------------
(* LatexConverter::convert: one action per arm of the match in the loop,   *)
(* and the return expression                                               *)

tokVars == <<input, pos>>

AtToken(type) ==
    /\ pc = "convert"
    /\ i <= Len(tokens)
    /\ tokens[i].type = type

\* converter.close_list_if_needed() + &formatted, pushed onto latex
CloseThenPush(formatted) ==
    LET close == close_list_if_needed(in_list, list_type)
    IN /\ latex' = latex \o close.out \o formatted
       /\ in_list' = close.in_list
       /\ i' = i + 1
       /\ UNCHANGED <<pc, tokens, list_type, tokVars>>

ConvertHeader ==
    /\ AtToken("Header")
    /\ CloseThenPush(convert_header(tokens[i].text, tokens[i].level))

ConvertBold ==
    /\ AtToken("Bold")
    /\ CloseThenPush(convert_bold(tokens[i].text))

ConvertItalic ==
    /\ AtToken("Italic")
    /\ CloseThenPush(convert_italic(tokens[i].text))

ConvertLink ==
    /\ AtToken("Link")
    /\ CloseThenPush(convert_link(tokens[i].text, tokens[i].url))

ConvertListItem ==
    /\ AtToken("ListItem")
    /\ LET r == convert_list_item(in_list, list_type, tokens[i].text, tokens[i].is_numbered)
       IN /\ latex' = latex \o r.out
          /\ in_list' = r.in_list
          /\ list_type' = r.list_type
    /\ i' = i + 1
    /\ UNCHANGED <<pc, tokens, tokVars>>

ConvertText ==
    /\ AtToken("Text")
    /\ CloseThenPush(tokens[i].text)

\* variant: the Newline arm closes an open list like the other arms
ConvertNewline_closes ==
    /\ AtToken("Newline")
    /\ CloseThenPush(<<"\n">>)

ConvertNewline ==
    /\ AtToken("Newline")
    /\ latex' = latex \o <<"\n">>
    /\ i' = i + 1
    /\ UNCHANGED <<pc, tokens, in_list, list_type, tokVars>>

\* variant: convert returns latex without the final close_list_if_needed
ConvertReturn_noflush ==
    /\ pc = "convert"
    /\ i > Len(tokens)
    /\ pc' = "converted"
    /\ UNCHANGED <<i, tokens, in_list, list_type, latex, tokVars>>

\* latex + &converter.close_list_if_needed()
ConvertReturn ==
    /\ pc = "convert"
    /\ i > Len(tokens)
    /\ LET close == close_list_if_needed(in_list, list_type)
       IN /\ latex' = latex \o close.out
          /\ in_list' = close.in_list
    /\ pc' = "converted"
    /\ UNCHANGED <<i, tokens, list_type, tokVars>>

----------------------------------------------------------------------------
(* Inputs of the converter: every token vector of at most MaxTokens tokens *)
(* over a small universe of payloads, and every one-header vector over the *)
(* whole range of the u8 level.                                            *)

Levels == 0..255

\* the header levels used inside the longer vectors: a sectioning level and
\* a fallback level
SeqLevels == {1, 6}

ConvTokens ==
    {Header(<<"a">>, l) : l \in SeqLevels}
    \cup {Bold(<<"a">>), Italic(<<"a">>), Link(<<"a">>, <<"b">>), Text(<<"a">>), Newline}
    \cup {Formula(<<"a">>, FALSE)}
    \cup {ListItem(t, k) : t \in {<<"a">>, <<"b">>}, k \in BOOLEAN}

TokenSeqs ==
    Strings(ConvTokens, MaxTokens) \cup {<<Header(<<"a">>, l)>> : l \in Levels}

InitConv ==
    /\ pc = "convert"
    /\ input = <<>>
    /\ pos = 1
    /\ tokens \in TokenSeqs
    /\ i = 1
    /\ in_list = FALSE
    /\ list_type = <<>>
    /\ latex = <<>>

NextConv ==
    \/ ConvertHeader
    \/ ConvertBold
    \/ ConvertItalic
    \/ ConvertLink
    \/ ConvertListItem
    \/ ConvertText
    \/ ConvertNewline
    \/ ConvertReturn

ConvSpec == InitConv /\ [][NextConv]_vars

----------------------------------------------------------------------------
(* Properties of LatexConverter::convert                                   *)

\* the formatting convert pushes for a token that is not a ListItem
OwnFormatting(t) ==
    CASE t.type = "Header" -> convert_header(t.text, t.level)
      [] t.type = "Bold" -> convert_bold(t.text)
      [] t.type = "Italic" -> convert_italic(t.text)
      [] t.type = "Link" -> convert_link(t.text, t.url)
      [] t.type = "Text" -> t.text
      [] t.type = "Newline" -> <<"\n">>

\* a step of the for loop of convert that processes tokens[i]
LoopStep == pc = "convert" /\ i <= Len(tokens) /\ i' = i + 1

Open == in_list
OpenKind == list_type[1]

BeginMarkers == {BeginMarker(TRUE), BeginMarker(FALSE)}
EndMarkers == {EndMarker(TRUE), EndMarker(FALSE)}

Count(seq, S) == Cardinality({k \in 1..Len(seq) : seq[k] \in S})

EndsWith(seq, suffix) ==
    /\ Len(seq) >= Len(suffix)
    /\ SubSeq(seq, Len(seq) - Len(suffix) + 1, Len(seq)) = suffix

\* what a non-ListItem token must do according to the close-then-format rule
ClosesThenFormats ==
    IF Open
    THEN /\ latex' = latex \o <<EndMarker(OpenKind)>> \o OwnFormatting(tokens[i])
         /\ ~in_list'
    ELSE /\ latex' = latex \o OwnFormatting(tokens[i])
         /\ ~in_list'

\* C1 as stated: every non-ListItem token (Header, Bold, Italic, Link, Text
\* and Newline) processed while a list is open first emits the closing
\* marker of the open kind and closes the list, and then emits its own
\* formatting; processed while no list is open it emits only its formatting.
C1_AsStated ==
    [][LoopStep /\ tokens[i].type # "ListItem" => ClosesThenFormats]_vars

\* C1 (amended): the close-then-format rule holds for Header, Bold, Italic,
\* Link and Text tokens; a Newline token emits only its line break and
\* leaves the list state as it is, open or closed.
C1_CloseBeforeFormat ==
    [][LoopStep =>
        /\ tokens[i].type \in {"Header", "Bold", "Italic", "Link", "Text"}
              => ClosesThenFormats
        /\ tokens[i].type = "Newline"
              => /\ latex' = latex \o <<"\n">>
                 /\ UNCHANGED <<in_list, list_type>>]_vars

C1_Witness ==
    /\ pc = "convert"
    /\ i >= 3
    /\ tokens[i - 2].type = "ListItem"
    /\ tokens[i - 1].type \in {"Header", "Bold", "Italic", "Link", "Text"}
    /\ ~in_list
    /\ EndsWith(latex, <<EndMarker(tokens[i - 2].is_numbered)>>
                          \o OwnFormatting(tokens[i - 1]))

\* the item entries of a run of ListItem tokens, in token order
RECURSIVE ItemEntries(_)
ItemEntries(ts) ==
    IF ts = <<>> THEN <<>>
    ELSE <<ItemMarker>> \o Head(ts).text \o ItemEntries(Tail(ts))

AllItemsOfKind(ts, k) ==
    \A j \in 1..Len(ts) : ts[j].type = "ListItem" /\ ts[j].is_numbered = k

\* C2: a ListItem processed while a list of its own kind is open emits only
\* an item marker and its text and leaves the list state unchanged; n >= 1
\* consecutive ListItems of one kind k processed from the closed state give
\* one opening marker for k and the n item entries in token order, and the
\* whole vector of such items is rendered with exactly one closing marker
\* for k after them.
C2_OneListPerRun ==
    /\ [][LoopStep /\ tokens[i].type = "ListItem" /\ Open
              /\ OpenKind = tokens[i].is_numbered
            => /\ latex' = latex \o <<ItemMarker>> \o tokens[i].text
               /\ UNCHANGED <<in_list, list_type>>]_vars
    /\ [](\A k \in BOOLEAN :
            LET done == SubSeq(tokens, 1, i - 1)
            IN pc \in {"convert", "converted"} /\ i >= 2 /\ AllItemsOfKind(done, k)
               => /\ pc = "convert"
                     => /\ latex = <<BeginMarker(k)>> \o ItemEntries(done)
                        /\ in_list /\ list_type = <<k>>
                  /\ pc = "converted"
                     => latex = <<BeginMarker(k)>> \o ItemEntries(done)
                                   \o <<EndMarker(k)>>)

C2_Witness ==
    /\ pc = "converted"
    /\ Len(tokens) >= 2
    /\ AllItemsOfKind(tokens, FALSE)
    /\ tokens[1].text # tokens[2].text
    /\ Count(latex, BeginMarkers) = 1
    /\ Count(latex, EndMarkers) = 1
    /\ Count(latex, {ItemMarker}) = Len(tokens)

\* C3: a ListItem of kind k processed while a list of the other kind k' is
\* open emits the closing marker for k', then the opening marker for k, then
\* the item marker and the text, and the list state becomes open with kind k.
C3_KindSwitch ==
    [][LoopStep /\ tokens[i].type = "ListItem" /\ Open
          /\ OpenKind # tokens[i].is_numbered
        => /\ latex' = latex \o <<EndMarker(OpenKind),
                                   BeginMarker(tokens[i].is_numbered),
                                   ItemMarker>> \o tokens[i].text
           /\ in_list'
           /\ list_type' = <<tokens[i].is_numbered>>]_vars

C3_Witness ==
    /\ pc = "convert"
    /\ i = 3
    /\ tokens[1] = ListItem(<<"a">>, FALSE)
    /\ tokens[2] = ListItem(<<"b">>, TRUE)
    /\ latex = <<BeginMarker(FALSE), ItemMarker, "a",
                 EndMarker(FALSE), BeginMarker(TRUE), ItemMarker, "b">>
    /\ in_list
    /\ list_type = <<TRUE>>

\* C4: the return of convert appends exactly one closing marker of the open
\* kind when a list is open after the last token and nothing otherwise; the
\* returned text has as many closing as opening markers, of each kind, and
\* no list is open.
C4_FinalFlush ==
    /\ [][pc = "convert" /\ pc' = "converted"
            => IF Open THEN latex' = latex \o <<EndMarker(OpenKind)>>
                       ELSE latex' = latex]_vars
    /\ [](pc = "converted"
            => /\ ~in_list
               /\ \A k \in BOOLEAN :
                    Count(latex, {BeginMarker(k)}) = Count(latex, {EndMarker(k)}))

C4_Witness ==
    /\ pc = "converted"
    /\ tokens # <<>>
    /\ tokens[Len(tokens)].type = "ListItem"
    /\ latex[Len(latex)] = EndMarker(tokens[Len(tokens)].is_numbered)
    /\ Count(latex, EndMarkers) = Count(latex, BeginMarkers)
    /\ Count(latex, EndMarkers) >= 1

----------------------------------------------------------------------------
(* Properties of Tokenizer::tokenize                                       *)

\* a step of the dispatch loop of tokenize
DispatchStep == pc = "tokenize" /\ pc' = "tokenize" /\ tokens' # tokens

\* the characters of s from p on that come before the first character not in Accept
RunEnd(s, p, Accept) ==
    CHOOSE e \in p..(Len(s) + 1) :
        /\ \A k \in p..(e - 1) : s[k] \in Accept
        /\ e <= Len(s) => s[e] \notin Accept

\* C5: every iteration of the dispatch loop consumes at least one character
\* and pushes one token; the cursor never passes the end of the input, so
\* the loop runs at most Len(input) times (tokenize terminates) and at most
\* Len(input) tokens are returned.
C5_Terminates ==
    /\ [][pc = "tokenize" /\ pc' = "tokenize"
            => pos' > pos /\ Len(tokens') = Len(tokens) + 1]_vars
    /\ [](Len(tokens) <= pos - 1 /\ pos <= Len(input) + 1)
    /\ [](pc = "tokenized" => Len(tokens) <= Len(input))

C5_Witness ==
    /\ pc = "tokenized"
    /\ Count(input, {"*"}) = 1
    /\ Count(input, {"["}) = 1
    /\ Count(input, {"]"}) = 0
    /\ Count(input, {"1"}) >= 1
    /\ Count(input, {"."}) = 0
    /\ Len(tokens) >= 2

\* the text at p is a digit run, then '.', then whitespace
NumberedMarkerAt(s, p) ==
    /\ current(s, p) \in Digits
    /\ LET d == RunEnd(s, p, Digits)
       IN current(s, d) = "." /\ current(s, d + 1) \in Whitespace

\* the rest of the line from p on, after the whitespace at p
RestOfLine(s, p) ==
    LET b == RunEnd(s, p, Whitespace)
    IN SubSeq(s, b, RunEnd(s, b, Chars \ {"\n"}) - 1)

\* C6: a digit at a dispatch position that starts a digit run followed by
\* '.' and whitespace yields ListItem(text, true), text being the rest of
\* the line after the run, the '.' and the whitespace.
C6_NumberedItem ==
    [][DispatchStep /\ NumberedMarkerAt(input, pos)
        => tokens' = Append(tokens,
               ListItem(RestOfLine(input, RunEnd(input, pos, Digits) + 1), TRUE))]_vars

\* C7: a digit at a dispatch position that does not start a digit run
\* followed by '.' and whitespace yields no ListItem: the characters
\* consumed from it on become the payload of a Text token.
C7_DigitIsText ==
    [][DispatchStep /\ current(input, pos) \in Digits /\ ~NumberedMarkerAt(input, pos)
        => /\ pos' > pos
           /\ tokens' = Append(tokens, Text(SubSeq(input, pos, pos' - 1)))]_vars

C7_Witness ==
    /\ pc = "tokenized"
    /\ Len(input) >= 3
    /\ input[1] = "1" /\ input[2] = "." /\ input[3] = "a"
    /\ tokens # <<>>
    /\ tokens[1].type = "Text"
    /\ SubSeq(tokens[1].text, 1, 3) = <<"1", ".", "a">>

\* C8: a '*' at a dispatch position that is directly followed by a space is
\* a bullet marker and yields ListItem(text, false), text being the rest of
\* the line after the whitespace.
C8_StarBullet ==
    [][DispatchStep /\ current(input, pos) = "*" /\ current(input, pos + 1) = " "
        => tokens' = Append(tokens, ListItem(RestOfLine(input, pos + 1), FALSE))]_vars

NoStar(s, a, b) == \A k \in a..b : s[k] # "*"

\* C9: at a dispatch position, "**" x "**" with no '*' in x yields Bold(x)
\* and "*" x "*" with x non-empty and no '*' in x yields Italic(x); the scan
\* resumes right after the closing marker and the earlier tokens are kept.
C9_Emphasis ==
    [][DispatchStep /\ current(input, pos) = "*"
        => \A n \in 0..Len(input) :
             /\ ( /\ pos + 3 + n <= Len(input)
                  /\ input[pos + 1] = "*"
                  /\ NoStar(input, pos + 2, pos + 1 + n)
                  /\ input[pos + 2 + n] = "*"
                  /\ input[pos + 3 + n] = "*" )
                => /\ tokens' = Append(tokens, Bold(SubSeq(input, pos + 2, pos + 1 + n)))
                   /\ pos' = pos + 4 + n
             /\ ( /\ n >= 1
                  /\ pos + 1 + n <= Len(input)
                  /\ NoStar(input, pos + 1, pos + n)
                  /\ input[pos + 1 + n] = "*" )
                => /\ tokens' = Append(tokens, Italic(SubSeq(input, pos + 1, pos + n)))
                   /\ pos' = pos + 2 + n]_vars

C9_Witness ==
    /\ pc = "tokenized"
    /\ input = <<" ", "*", "*", "a", "a", "*", "*", ".">>
    /\ tokens = <<Text(<<" ">>), Bold(<<"a", "a">>), Text(<<".">>)>>

\* C10: at a dispatch position, "[" t "](" u ")" with no ']' in t and no
\* ')' in u yields Link(t, u) and the scan resumes right after the ')'.
C10_Link ==
    [][DispatchStep /\ current(input, pos) = "["
        => \A n \in 0..Len(input), m \in 0..Len(input) :
             ( /\ pos + 3 + n + m <= Len(input)
               /\ \A k \in (pos + 1)..(pos + n) : input[k] # "]"
               /\ input[pos + 1 + n] = "]"
               /\ input[pos + 2 + n] = "("
               /\ \A k \in (pos + 3 + n)..(pos + 2 + n + m) : input[k] # ")"
               /\ input[pos + 3 + n + m] = ")" )
             => /\ tokens' = Append(tokens,
                      Link(SubSeq(input, pos + 1, pos + n),
                           SubSeq(input, pos + 3 + n, pos + 2 + n + m)))
                /\ pos' = pos + 4 + n + m]_vars

C10_Witness ==
    /\ pc = "tokenized"
    /\ input = <<" ", "[", "a", " ", "]", "(", "a", "a", ")", ".">>
    /\ tokens = <<Text(<<" ">>), Link(<<"a", " ">>, <<"a", "a">>), Text(<<".">>)>>

\* the payload text of a token, a link's display text before its url
PayloadOf(t) ==
    CASE t.type = "Link" -> t.text \o t.url
      [] t.type = "Newline" -> <<>>
      [] OTHER -> t.text

\* the delimiters a token consumes
Delimiters == {"*", "[", "]", "(", ")", "#", "-", "."} \cup Digits

\* payload is span with some characters left out, in the same order, every
\* character left out being in Dropped
RECURSIVE KeepsOrder(_, _, _)
KeepsOrder(span, payload, Dropped) ==
    IF payload = <<>> THEN \A k \in 1..Len(span) : span[k] \in Dropped
    ELSE \E j \in 1..Len(span) :
            /\ span[j] = Head(payload)
            /\ \A k \in 1..(j - 1) : span[k] \in Dropped
            /\ KeepsOrder(SubSeq(span, j + 1, Len(span)), Tail(payload), Dropped)

\* the token pushed by the step and the characters the step consumed
Pushed == tokens'[Len(tokens')]
Span == SubSeq(input, pos, pos' - 1)

\* C11 as stated: every token's payload is the text it consumed, in order,
\* less delimiters only (the whitespace skipped after a marker or trimmed,
\* and the '\n' of a Newline token, are not counted as content): no content
\* character is dropped or reordered, for every input.
C11_AsStated ==
    [][DispatchStep => KeepsOrder(Span, PayloadOf(Pushed), Delimiters \cup Whitespace)]_vars

\* the step is a link whose ']' is not followed by '(' or a bold span whose
\* closing '*' is not followed by '*'
BlindSkip ==
    \/ /\ current(input, pos) = "["
       /\ current(input, RunEnd(input, pos + 1, Chars \ {"]"}) + 1) \notin {"(", None}
    \/ /\ current(input, pos) = "*" /\ current(input, pos + 1) = "*"
       /\ current(input, RunEnd(input, pos + 2, Chars \ {"*"}) + 1) \notin {"*", None}

\* C11 (amended): every token's payload is the text it consumed with some
\* characters left out and none reordered; the characters left out are
\* delimiters, whitespace skipped after a marker or trimmed from a header,
\* and the '\n' of a Newline token, except that the one character after the
\* ']' of a link and after the first closing '*' of a bold span is left out
\* whatever it is.
C11_OrderedPartition ==
    [][DispatchStep =>
        /\ KeepsOrder(Span, PayloadOf(Pushed), Chars)
        /\ ~BlindSkip => KeepsOrder(Span, PayloadOf(Pushed), Delimiters \cup Whitespace)]_vars

RECURSIVE Payloads_Of(_)
Payloads_Of(ts) == IF ts = <<>> THEN <<>> ELSE PayloadOf(Head(ts)) \o Payloads_Of(Tail(ts))

C11_Witness ==
    /\ pc = "tokenized"
    /\ input = <<"a", "[", "a", " ", "]", "(", "a", ")", "a">>
    /\ Payloads_Of(tokens) = <<"a", "a", " ", "a", "a">>

\* C12: a '-' is a list marker also after plain text on the same line: the
\* payload of a Text token ends before the '-' (no Text payload holds a
\* '-'), and the step at the '-' pushes ListItem(rest of the line, false).
C12_DashAlwaysList ==
    /\ [](\A j \in 1..Len(tokens) :
            tokens[j].type = "Text" => Count(tokens[j].text, {"-"}) = 0)
    /\ [][DispatchStep /\ current(input, pos) = "-"
            => Pushed = ListItem(RestOfLine(input, pos + 1), FALSE)]_vars

\* C13: a header's text is the trimmed text between the whitespace after its
\* '#' run and the next '\n' of the same line, and the header leaves that
\* '\n' to the next step; a '#' run directly followed by '\n' yields a
\* header with empty text and stops at the '\n'.
C13_HeaderOneLine ==
    [][DispatchStep /\ current(input, pos) = "#"
        => LET h == RunEnd(input, pos, {"#"})
               e == RunEnd(input, h, Chars \ {"\n"})
           IN /\ Pushed.type = "Header"
              /\ Pushed.text = trim(SubSeq(input, h, e - 1))
              /\ pos' = e]_vars

\* C14: the level of a header is the number of '#' of the maximal run that
\* starts it, whatever the length of the run.
C14_LevelIsRunLength ==
    [][DispatchStep /\ current(input, pos) = "#"
        => Pushed.level = RunEnd(input, pos, {"#"}) - pos]_vars

\* the opening of the wrapper the header table gives for a level
HeaderWrapper(level) ==
    IF level = 1 THEN "\\section{"
    ELSE IF level = 2 THEN "\\subsection{"
    ELSE IF level = 3 THEN "\\subsubsection{"
    ELSE IF level = 4 THEN "\\paragraph{"
    ELSE IF level = 5 THEN "\\subparagraph{"
    ELSE "\\textbf{"

\* C15: a Header(text, level) token is rendered as the wrapper selected by
\* its level (1 section, 2 subsection, 3 subsubsection, 4 paragraph,
\* 5 subparagraph, any other level \textbf) around the unchanged text,
\* followed by one line break.
C15_HeaderTable ==
    [][LoopStep /\ tokens[i].type = "Header"
        => /\ EndsWith(latex', <<HeaderWrapper(tokens[i].level)>> \o tokens[i].text \o <<"}\n">>)
           /\ Len(latex') - Len(latex) = Len(tokens[i].text) + 2 + (IF Open THEN 1 ELSE 0)]_vars

C15_Witness ==
    /\ pc = "converted"
    /\ tokens = <<Header(<<"a">>, 255)>>
    /\ latex = <<"\\textbf{", "a", "}\n">>

\* C16: convert is total: whatever Token values the vector holds, the loop
\* of convert has a step for the token it is at and the return for the end
\* of the vector, so it never stops before returning; the empty vector is
\* returned as the empty text.
C16_Total ==
    /\ pc = "convert" => ENABLED NextConv
    /\ pc = "converted" /\ tokens = <<>> => latex = <<>>

\* t holds character a directly followed by character b
HasPair(t, a, b) == \E k \in 1..(Len(t) - 1) : t[k] = a /\ t[k + 1] = b

\* C17: every text payload of a token has passed the text cleaning: it holds
\* no two adjacent spaces and no space directly followed by '-'.
C17_PayloadsCleaned ==
    \A j \in 1..Len(tokens) :
        tokens[j].type # "Newline"
            => ~HasPair(tokens[j].text, " ", " ") /\ ~HasPair(tokens[j].text, " ", "-")

\* the characters that end a run of plain text
RunStops == {"#", "*", "[", "\n"}

C19_NewlineKeepsList ==
    /\ [][LoopStep /\ tokens[i].type = "Newline"
            => /\ Len(latex') = Len(latex) + 1
               /\ latex'[Len(latex')] = "\n"
               /\ SubSeq(latex', 1, Len(latex)) = latex
               /\ in_list' = in_list
               /\ list_type' = list_type]_vars
    /\ [](\A k \in BOOLEAN :
            /\ pc = "converted"
            /\ Len(tokens) = 3
            /\ AllItemsOfKind(<<tokens[1], tokens[3]>>, k)
            /\ tokens[2] = Newline
            => latex = <<BeginMarker(k), ItemMarker>> \o tokens[1].text \o <<"\n">>
                       \o <<ItemMarker>> \o tokens[3].text \o <<EndMarker(k)>>)

C19_Witness ==
    /\ pc = "converted"
    /\ tokens = <<ListItem(<<"a">>, TRUE), Newline, ListItem(<<"b">>, TRUE)>>
    /\ latex = <<BeginMarker(TRUE), ItemMarker, "a", "\n", ItemMarker, "b", EndMarker(TRUE)>>

IsListMarker(x) == x \in BeginMarkers \cup EndMarkers

\* the opening and closing markers of the output, in order
MarkersOf(out) == SelectSeq(out, IsListMarker)

\* the ListItem tokens processed so far
IsListItem(t) == t.type = "ListItem"
ItemsDone == SelectSeq(SubSeq(tokens, 1, i - 1), IsListItem)

\* C20: whenever in_list is true, list_type is Some(k), k being the kind of
\* the most recently processed ListItem (so closing never falls back on the
\* unwrap_or default); the opening and closing markers of the output
\* alternate, starting with an opening one, each closing marker names the
\* environment of the opening marker before it, and a list is open exactly
\* when the last marker is an opening one, which is then of kind k.
C20_ListStateInvariant ==
    pc \in {"convert", "converted"} =>
        LET ms == MarkersOf(latex)
        IN /\ in_list => /\ list_type # <<>>
                         /\ ItemsDone # <<>>
                         /\ list_type[1] = ItemsDone[Len(ItemsDone)].is_numbered
                         /\ ms # <<>>
                         /\ ms[Len(ms)] = BeginMarker(list_type[1])
           /\ in_list <=> Len(ms) % 2 = 1
           /\ \A j \in 1..Len(ms) :
                /\ j % 2 = 1 => ms[j] \in BeginMarkers
                /\ j % 2 = 0 => \E k \in BOOLEAN :
                                   ms[j - 1] = BeginMarker(k) /\ ms[j] = EndMarker(k)

C20_Witness ==
    /\ pc = "convert"
    /\ i = 4
    /\ tokens[1] = ListItem(<<"a">>, TRUE)
    /\ tokens[2] = Text(<<"a">>)
    /\ tokens[3] = ListItem(<<"b">>, FALSE)
    /\ in_list
    /\ list_type = <<FALSE>>
    /\ MarkersOf(latex) = <<BeginMarker(TRUE), EndMarker(TRUE), BeginMarker(FALSE)>>

====
